---- MODULE Spec2Model ----
(***************************************************************************)
(* Reconciliation engine of budapest_time_travel                           *)
(* (notebooks/preprocessing/preprocessing_v08.ipynb).                      *)
(*                                                                         *)
(* A data frame is a sequence of records (row order and duplicate rows are *)
(* kept).  Calendar dates are day ordinals (day 1 is a Monday); identifiers*)
(* (route_id, shape_id, trip_headsign, service_id) are small integers so   *)
(* that the sorts of the code can be computed.  An absent value (np.nan,   *)
(* pd.NaT, None) is the empty tuple and a present value of a nullable      *)
(* column is a one-element tuple.                                          *)
(***************************************************************************)
EXTENDS Integers, Sequences, FiniteSets, TLC

\* ------------------------------------------------------------------ bounds
MaxRuns == 2
MaxTrips == 2
LastDate == 3
MaxDate == 9

\* ------------------------------------------------------- program constants
START_VERSION_ID == 100000
START_VARIANT_ID == 100000
DUPLICATE_COUNT == 2

\* ------------------------------------------------------------ absent value
NaN == <<>>
isna(x) == x = NaN

\* ----------------------------------------------------------- frame helpers
Range(s) == {s[i] : i \in 1..Len(s)}

SetMax(S) == CHOOSE m \in S : \A x \in S : x <= m

SetMin(S) == CHOOSE m \in S : \A x \in S : m <= x

\* lexicographic order on integer tuples of the same length
LexLess(a, b) ==
    \E i \in 1..Len(a) : a[i] < b[i] /\ \A j \in 1..(i - 1) : a[j] = b[j]

\* stable sort of the frame s by the parallel sequence of integer-tuple keys
SortValues(s, keys) ==
    LET n == Len(s)
        Before(k, j) == LexLess(keys[k], keys[j]) \/ (keys[k] = keys[j] /\ k < j)
        pos(i) == CHOOSE j \in 1..n : Cardinality({k \in 1..n : Before(k, j)}) = i - 1
    IN  [i \in 1..n |-> s[pos(i)]]

\* rows of s whose key (under the parallel sequence keys) occurs first
DropDuplicates(s, keys) ==
    LET first(i) == \A k \in 1..(i - 1) : keys[k] # keys[i]
        RECURSIVE Keep(_)
        Keep(i) == IF i > Len(s) THEN <<>>
                   ELSE (IF first(i) THEN <<s[i]>> ELSE <<>>) \o Keep(i + 1)
    IN  Keep(1)

\* concatenation of the frames f[1], ..., f[Len(f)]
RECURSIVE Concat(_)
Concat(f) == IF f = <<>> THEN <<>> ELSE Head(f) \o Concat(Tail(f))

\* the sorted sequence of the elements of a finite set of integer tuples
SortedTuples(S) ==
    LET RECURSIVE Build(_)
        Build(R) == IF R = {} THEN <<>>
                    ELSE LET m == CHOOSE x \in R : \A y \in R : x = y \/ LexLess(x, y)
                         IN  <<m>> \o Build(R \ {m})
    IN  Build(S)

\* ------------------------------------------------- Service Date Expander
Weekday(d) == (d - 1) % 7

\* the walk stopping one day before end_date
get_active_dates_exclusive(df, service_id) ==
    LET service_row == SelectSeq(df, LAMBDA r : r.service_id = service_id)
    IN  IF service_row = <<>> THEN <<>>
        ELSE LET service == service_row[1]
                 days_active == {i \in 0..6 : service.days[i + 1] = 1}
                 RECURSIVE Walk(_)
                 Walk(current_date) ==
                     IF current_date >= service.end_date THEN <<>>
                     ELSE (IF Weekday(current_date) \in days_active
                           THEN <<current_date>> ELSE <<>>) \o Walk(current_date + 1)
             IN  IF days_active = {} THEN <<>> ELSE Walk(service.start_date)

get_active_dates(df, service_id) ==
    LET service_row == SelectSeq(df, LAMBDA r : r.service_id = service_id)
    IN  IF service_row = <<>> THEN <<>>
        ELSE LET service == service_row[1]
                 days_active == {i \in 0..6 : service.days[i + 1] = 1}
                 RECURSIVE Walk(_)
                 Walk(current_date) ==
                     IF current_date > service.end_date THEN <<>>
                     ELSE (IF Weekday(current_date) \in days_active
                           THEN <<current_date>> ELSE <<>>) \o Walk(current_date + 1)
             IN  IF days_active = {} THEN <<>> ELSE Walk(service.start_date)

unique_services(trips_df) == {trips_df[i].service_id : i \in 1..Len(trips_df)}

trip_dates(trips_df, calendar_df) ==
    [service \in unique_services(trips_df) |-> get_active_dates(calendar_df, service)]

trip_first_date(trips_df, calendar_df) ==
    [service \in unique_services(trips_df) |->
        LET dates == trip_dates(trips_df, calendar_df)[service]
        IN  IF dates # <<>> THEN <<dates[1]>> ELSE NaN]

\* ------------------------------------------------ Route Version Reconciler
\* groupby(route_id, shape_id, trip_headsign, direction_id, first_date).count():
\* trips whose service has no first date fall out of the grouping
trips2latest_routes(trips_df, first_date, routes_txt) ==
    LET dated == SelectSeq(trips_df, LAMBDA t : ~isna(first_date[t.service_id]))
        GroupOf(t) == <<t.route_id, t.shape_id, t.trip_headsign, t.direction_id,
                        first_date[t.service_id][1]>>
        groups == SortedTuples({GroupOf(dated[i]) : i \in 1..Len(dated)})
        counted == [i \in 1..Len(groups) |->
                       [route_id |-> groups[i][1], shape_id |-> groups[i][2],
                        trip_headsign |-> groups[i][3], direction_id |-> groups[i][4],
                        first_date |-> groups[i][5],
                        service_id |-> Cardinality({k \in 1..Len(dated) :
                                                        GroupOf(dated[k]) = groups[i]})]]
        sorted == SortValues(counted, [i \in 1..Len(counted) |->
                       <<counted[i].route_id, counted[i].direction_id,
                         0 - counted[i].service_id>>])
        extended_trips == DropDuplicates(sorted, [i \in 1..Len(sorted) |->
                       <<sorted[i].route_id, sorted[i].direction_id>>])
        Joined(r) == LET m == SelectSeq(extended_trips, LAMBDA e : e.route_id = r.route_id)
                     IN  [i \in 1..Len(m) |->
                            [route_id |-> r.route_id,
                             route_short_name |-> r.route_short_name,
                             route_desc |-> r.route_desc,
                             main_shape_id |-> m[i].shape_id,
                             trip_headsign |-> m[i].trip_headsign,
                             direction_id |-> m[i].direction_id,
                             valid_from |-> m[i].first_date]]
    IN  Concat([i \in 1..Len(routes_txt) |-> Joined(routes_txt[i])])

\* -------------------------------------------------------- routes catalog
\* an upsert: the row of a known route_id takes the attributes of the snapshot
update_routes_df_upsert(routes_df, latest_routes_df) ==
    LET known == {routes_df[i].route_id : i \in 1..Len(routes_df)}
        fresh == SelectSeq(latest_routes_df, LAMBDA r : r.route_id \notin known)
        Seen(r) == SelectSeq(latest_routes_df, LAMBDA l : l.route_id = r.route_id)
    IN  [i \in 1..Len(routes_df) |->
            IF Seen(routes_df[i]) = <<>> THEN routes_df[i]
            ELSE [routes_df[i] EXCEPT !.route_short_name = Seen(routes_df[i])[1].route_short_name]]
        \o [i \in 1..Len(fresh) |->
               [route_id |-> fresh[i].route_id,
                route_short_name |-> fresh[i].route_short_name]]

update_routes_df(routes_df, latest_routes_df) ==
    LET known == {routes_df[i].route_id : i \in 1..Len(routes_df)}
        fresh == SelectSeq(latest_routes_df, LAMBDA r : r.route_id \notin known)
        new_routes == [i \in 1..Len(fresh) |->
                          [route_id |-> fresh[i].route_id,
                           route_short_name |-> fresh[i].route_short_name]]
    IN  routes_df \o new_routes

\* the route_ids listed by the duplicate warning of update_routes_df
duplicates(updated_routes_df) ==
    {r \in {updated_routes_df[i].route_id : i \in 1..Len(updated_routes_df)} :
        Cardinality({i \in 1..Len(updated_routes_df) :
                        updated_routes_df[i].route_id = r}) > DUPLICATE_COUNT}

\* ------------------------------------------------------- version history
\* the comparison without the trip_headsign
version_exists_no_headsign(current_versions, row) ==
    \E i \in 1..Len(current_versions) :
        /\ current_versions[i].route_id = row.route_id
        /\ current_versions[i].direction_id = row.direction_id
        /\ current_versions[i].main_shape_id = row.main_shape_id

version_exists(current_versions, row) ==
    \E i \in 1..Len(current_versions) :
        /\ current_versions[i].route_id = row.route_id
        /\ current_versions[i].direction_id = row.direction_id
        /\ current_versions[i].main_shape_id = row.main_shape_id
        /\ current_versions[i].trip_headsign = row.trip_headsign

\* the counter continuing from the highest id instead of the one after it
next_version_id_reuse(route_versions_df) ==
    IF route_versions_df = <<>> THEN START_VERSION_ID
    ELSE SetMax({route_versions_df[i].version_id : i \in 1..Len(route_versions_df)})

next_version_id(route_versions_df) ==
    IF route_versions_df = <<>> THEN START_VERSION_ID
    ELSE SetMax({route_versions_df[i].version_id : i \in 1..Len(route_versions_df)}) + 1

new_versions_filtered(route_versions_df, latest_routes_df) ==
    LET new_versions_df == [i \in 1..Len(latest_routes_df) |->
            [route_id |-> latest_routes_df[i].route_id,
             main_shape_id |-> latest_routes_df[i].main_shape_id,
             trip_headsign |-> latest_routes_df[i].trip_headsign,
             direction_id |-> latest_routes_df[i].direction_id,
             route_desc |-> latest_routes_df[i].route_desc,
             valid_from |-> latest_routes_df[i].valid_from,
             valid_to |-> NaN]]
        current_versions == SelectSeq(route_versions_df, LAMBDA v : isna(v.valid_to))
    IN  SelectSeq(new_versions_df, LAMBDA row : ~version_exists(current_versions, row))

\* a close-out whose mask selects no row
close_mask_none(route_versions_df, row) == {}

\* a mask without the valid_to.isna() term
close_mask_closed_too(route_versions_df, row) ==
    {i \in 1..Len(route_versions_df) : route_versions_df[i].route_id = row.route_id}

\* the rows of the history that the close-out loop writes for the new row
close_mask(route_versions_df, row) ==
    {i \in 1..Len(route_versions_df) :
        /\ route_versions_df[i].route_id = row.route_id
        /\ isna(route_versions_df[i].valid_to)}

\* the close-out loop: the mask is taken on the frame passed in, the write
\* goes to the copy, so a later new row overwrites the date of an earlier one
close_out(route_versions_df, new_rows) ==
    LET RECURSIVE Loop(_, _)
        Loop(copy, j) ==
            IF j > Len(new_rows) THEN copy
            ELSE Loop([i \in 1..Len(copy) |->
                          IF i \in close_mask(route_versions_df, new_rows[j])
                          THEN [copy[i] EXCEPT !.valid_to = <<new_rows[j].valid_from - 1>>]
                          ELSE copy[i]], j + 1)
    IN  Loop(route_versions_df, 1)

update_route_versions(route_versions_df, latest_routes_df) ==
    LET new_rows == new_versions_filtered(route_versions_df, latest_routes_df)
        first_id == next_version_id(route_versions_df)
        numbered == [j \in 1..Len(new_rows) |->
                        [version_id |-> first_id + j - 1,
                         route_id |-> new_rows[j].route_id,
                         direction_id |-> new_rows[j].direction_id,
                         route_desc |-> new_rows[j].route_desc,
                         valid_from |-> new_rows[j].valid_from,
                         valid_to |-> new_rows[j].valid_to,
                         main_shape_id |-> new_rows[j].main_shape_id,
                         trip_headsign |-> new_rows[j].trip_headsign]]
    IN  close_out(route_versions_df, new_rows) \o numbered

\* ----------------------------------------------------- Activation Derivers
\* one row per (route_id, shape_id, trip_headsign, direction_id) group and
\* per active date of the group's first service (groupby(...).agg("first"))
get_df_with_noexception(dates_of, trips_df) ==
    LET non_empty_keys == {k \in DOMAIN dates_of : dates_of[k] # <<>>}
        inservice_df == SelectSeq(trips_df, LAMBDA t : t.service_id \in non_empty_keys)
        GroupOf(t) == <<t.route_id, t.shape_id, t.trip_headsign, t.direction_id>>
        groups == SortedTuples({GroupOf(inservice_df[i]) : i \in 1..Len(inservice_df)})
        FirstService(g) ==
            inservice_df[SetMin({i \in 1..Len(inservice_df) : GroupOf(inservice_df[i]) = g})].service_id
        Exploded(g) == LET date_list == dates_of[FirstService(g)]
                       IN  [k \in 1..Len(date_list) |->
                              [date |-> date_list[k], route_id |-> g[1], shape_id |-> g[2],
                               trip_headsign |-> g[3], direction_id |-> g[4],
                               exception_type |-> NaN]]
    IN  Concat([i \in 1..Len(groups) |-> Exploded(groups[i])])

\* str(int(x)) of an exception code
str(x) == ToString(x)

\* left merge of the trips with the calendar exceptions on service_id, then
\* groupby(route_id, shape_id, trip_headsign, direction_id, date).agg("first");
\* a trip without exception rows has no date and falls out of the grouping
get_df_with_exception(calendar_dates_df, trips_df) ==
    LET Matches(t) == LET c == SelectSeq(calendar_dates_df,
                                         LAMBDA x : x.service_id = t.service_id)
                      IN  [k \in 1..Len(c) |->
                             [date |-> c[k].date, route_id |-> t.route_id,
                              shape_id |-> t.shape_id, trip_headsign |-> t.trip_headsign,
                              direction_id |-> t.direction_id,
                              exception_type |-> c[k].exception_type]]
        merged == Concat([i \in 1..Len(trips_df) |-> Matches(trips_df[i])])
        GroupOf(m) == <<m.route_id, m.shape_id, m.trip_headsign, m.direction_id, m.date>>
        groups == SortedTuples({GroupOf(merged[i]) : i \in 1..Len(merged)})
        First(g) == merged[SetMin({i \in 1..Len(merged) : GroupOf(merged[i]) = g})]
    IN  [i \in 1..Len(groups) |->
            [date |-> groups[i][5], route_id |-> groups[i][1], shape_id |-> groups[i][2],
             trip_headsign |-> groups[i][3], direction_id |-> groups[i][4],
             exception_type |-> <<str(First(groups[i]).exception_type)>>]]

\* ------------------------------------------------------- Activation Merger
ExceptionCodes == {1, 2}

\* astype('float64') of an exception_type cell
float64(x) == IF isna(x) THEN NaN ELSE <<CHOOSE c \in ExceptionCodes : str(c) = x[1]>>

\* the dedup key: every column except exception_type
cols_except_exception(r) ==
    <<r.date, r.route_id, r.shape_id, r.trip_headsign, r.direction_id>>

\* the concatenation without the sort on __is_nan__
combined_unsorted(df1, df2) == df1 \o df2

\* sort_values('__is_nan__'): rows with an exception code first
combined_sorted(df1, df2) ==
    LET combined == df1 \o df2
    IN  SortValues(combined, [i \in 1..Len(combined) |->
                                 <<IF isna(combined[i].exception_type) THEN 1 ELSE 0>>])

\* the merge without drop_duplicates
merge_exception_dfs_keep_all(df_noexceptions, df_exceptions) ==
    LET merged_df == combined_sorted(df_noexceptions, df_exceptions)
        Code(r) == IF isna(r.exception_type) THEN SetMax(ExceptionCodes) + 1
                   ELSE float64(r.exception_type)[1]
    IN  SortValues(merged_df, [i \in 1..Len(merged_df) |->
            <<merged_df[i].date, merged_df[i].route_id, merged_df[i].direction_id,
              merged_df[i].shape_id, merged_df[i].trip_headsign, Code(merged_df[i])>>])

merge_exception_dfs(df_noexceptions, df_exceptions) ==
    LET sorted == combined_sorted(df_noexceptions, df_exceptions)
        merged_df == DropDuplicates(sorted, [i \in 1..Len(sorted) |->
                                                cols_except_exception(sorted[i])])
        Code(r) == IF isna(r.exception_type) THEN SetMax(ExceptionCodes) + 1
                   ELSE float64(r.exception_type)[1]
    IN  SortValues(merged_df, [i \in 1..Len(merged_df) |->
            <<merged_df[i].date, merged_df[i].route_id, merged_df[i].direction_id,
              merged_df[i].shape_id, merged_df[i].trip_headsign, Code(merged_df[i])>>])

\* the number of duplicates merge_exception_dfs reports as removed
removed(df_noexceptions, df_exceptions) ==
    Len(df_noexceptions \o df_exceptions)
        - Len(merge_exception_dfs(df_noexceptions, df_exceptions))

\* the join with every version of the history, open or closed
get_extended4shape_variants_all(extended_route_versions_df, df_noexceptions, df_exceptions) ==
    LET merged_df == merge_exception_dfs(df_noexceptions, df_exceptions)
        Joined(v) == LET m == SelectSeq(merged_df, LAMBDA r :
                                  r.route_id = v.route_id /\ r.direction_id = v.direction_id)
                     IN  [k \in 1..Len(m) |->
                            [version_id |-> v.version_id, route_id |-> v.route_id,
                             direction_id |-> v.direction_id,
                             is_main |-> IF v.main_shape_id = m[k].shape_id THEN 1 ELSE 0,
                             date |-> m[k].date, shape_id |-> m[k].shape_id,
                             trip_headsign |-> m[k].trip_headsign,
                             exception_type |-> m[k].exception_type]]
    IN  Concat([i \in 1..Len(extended_route_versions_df) |->
                   Joined(extended_route_versions_df[i])])

get_extended4shape_variants(extended_route_versions_df, df_noexceptions, df_exceptions) ==
    LET valid_routes == SelectSeq(extended_route_versions_df, LAMBDA v : isna(v.valid_to))
        merged_df == merge_exception_dfs(df_noexceptions, df_exceptions)
        Joined(v) == LET m == SelectSeq(merged_df, LAMBDA r :
                                  r.route_id = v.route_id /\ r.direction_id = v.direction_id)
                     IN  [k \in 1..Len(m) |->
                            [version_id |-> v.version_id, route_id |-> v.route_id,
                             direction_id |-> v.direction_id,
                             is_main |-> IF v.main_shape_id = m[k].shape_id THEN 1 ELSE 0,
                             date |-> m[k].date, shape_id |-> m[k].shape_id,
                             trip_headsign |-> m[k].trip_headsign,
                             exception_type |-> m[k].exception_type]]
    IN  Concat([i \in 1..Len(valid_routes) |-> Joined(valid_routes[i])])

\* -------------------------------------------------- Shape Variant Reconciler
variant_key(r) == <<r.version_id, r.shape_id, r.trip_headsign, r.is_main>>

\* every distinct variant key of return_df taken as new, without the
\* comparison against the catalog
truly_new_variants_all(return_df, shape_variants_df) ==
    DropDuplicates(return_df, [i \in 1..Len(return_df) |-> variant_key(return_df[i])])

\* the distinct variant keys of return_df that the catalog does not hold yet
truly_new_variants(return_df, shape_variants_df) ==
    LET new_variants == DropDuplicates(return_df, [i \in 1..Len(return_df) |->
                                                     variant_key(return_df[i])])
        existing_variants == {variant_key(shape_variants_df[i]) :
                                 i \in 1..Len(shape_variants_df)}
    IN  IF Len(shape_variants_df) # 0
        THEN SelectSeq(new_variants, LAMBDA r : variant_key(r) \notin existing_variants)
        ELSE new_variants

start_id(shape_variants_df) ==
    IF Len(shape_variants_df) = 0 THEN START_VARIANT_ID
    ELSE SetMax({shape_variants_df[i].shape_variant_id :
                    i \in 1..Len(shape_variants_df)}) + 1

\* the variant catalog update_shape_variants_and_activations returns
updated_shape_variants(return_df, shape_variants_df) ==
    LET new == truly_new_variants(return_df, shape_variants_df)
        first_id == start_id(shape_variants_df)
        new_variant_records == [j \in 1..Len(new) |->
            [shape_variant_id |-> first_id + j - 1, version_id |-> new[j].version_id,
             shape_id |-> new[j].shape_id, trip_headsign |-> new[j].trip_headsign,
             is_main |-> new[j].is_main]]
    IN  IF Len(new) # 0 THEN shape_variants_df \o new_variant_records
        ELSE shape_variants_df

\* a missing shape_variant_id after the left merge with the variant mapping
NA_ID == 0

\* return_df left-merged with the complete catalog, cut to the ledger columns
new_activations(return_df, variant_mapping) ==
    LET Mapped(r) ==
            LET m == SelectSeq(variant_mapping, LAMBDA v : variant_key(v) = variant_key(r))
            IN  IF Len(m) = 0
                THEN <<[date |-> r.date, shape_variant_id |-> NA_ID,
                        exception_type |-> float64(r.exception_type)]>>
                ELSE [k \in 1..Len(m) |->
                         [date |-> r.date, shape_variant_id |-> m[k].shape_variant_id,
                          exception_type |-> float64(r.exception_type)]]
    IN  Concat([i \in 1..Len(return_df) |-> Mapped(return_df[i])])

\* ------------------------------------------------- Activation Ledger Updater
\* every candidate taken as new, without the comparison against the ledger
truly_new_activations_all(candidates, shape_variant_activations_df) == candidates

\* the candidates whose (date, shape_variant_id, exception_type) is not in the
\* ledger; absent exception types match each other in the merge
truly_new_activations(candidates, shape_variant_activations_df) ==
    IF Len(shape_variant_activations_df) # 0
    THEN SelectSeq(candidates, LAMBDA a : a \notin Range(shape_variant_activations_df))
    ELSE candidates

\* a ledger rebuilt from the candidates of the call alone
updated_activations_rebuilt(return_df, shape_variants_df, shape_variant_activations_df) ==
    LET catalog == updated_shape_variants(return_df, shape_variants_df)
        all == new_activations(return_df, catalog)
    IN  SortValues(all, [i \in 1..Len(all) |-> <<all[i].date, all[i].shape_variant_id>>])

\* a ledger that appends every candidate, held already or not
updated_activations_unchecked(return_df, shape_variants_df, shape_variant_activations_df) ==
    LET catalog == updated_shape_variants(return_df, shape_variants_df)
        all == shape_variant_activations_df \o new_activations(return_df, catalog)
    IN  SortValues(all, [i \in 1..Len(all) |-> <<all[i].date, all[i].shape_variant_id>>])

\* the ledger update_shape_variants_and_activations returns
updated_activations(return_df, shape_variants_df, shape_variant_activations_df) ==
    LET catalog == updated_shape_variants(return_df, shape_variants_df)
        new == truly_new_activations(new_activations(return_df, catalog),
                                     shape_variant_activations_df)
        all == IF Len(new) # 0 THEN shape_variant_activations_df \o new
               ELSE shape_variant_activations_df
    IN  SortValues(all, [i \in 1..Len(all) |-> <<all[i].date, all[i].shape_variant_id>>])

\* the summary lines of update_shape_variants_and_activations
summary(return_df, shape_variants_df, shape_variant_activations_df) ==
    LET catalog == updated_shape_variants(return_df, shape_variants_df)
        new == truly_new_activations(new_activations(return_df, catalog),
                                     shape_variant_activations_df)
    IN  <<IF Len(truly_new_variants(return_df, shape_variants_df)) # 0
          THEN "New variants added" ELSE "No new variants added",
          IF Len(new) # 0 THEN "New activations added" ELSE "No new activations added">>

\* ------------------------------------------------------------ feed snapshots
RouteIds == {1}
ShapeIds == {1, 2}
Headsigns == {1, 2}
DirectionIds == {0, 1}
ServiceIds == {1, 2}

\* routes.txt of a snapshot: route_id is its key
RoutesTxts ==
    {[i \in 1..Cardinality(RouteIds) |->
         [route_id |-> i, route_short_name |-> 1, route_desc |-> 1]]}

\* trips.txt rows: direction 0 runs shape 1 under service 1 with either
\* headsign, direction 1 runs shape 1 under service 1 or shape 2 under service 2
TripRows ==
    {[service_id |-> 1, route_id |-> 1, shape_id |-> 1, trip_headsign |-> 1, direction_id |-> 0],
     [service_id |-> 1, route_id |-> 1, shape_id |-> 1, trip_headsign |-> 2, direction_id |-> 0],
     [service_id |-> 1, route_id |-> 1, shape_id |-> 1, trip_headsign |-> 1, direction_id |-> 1],
     [service_id |-> 2, route_id |-> 1, shape_id |-> 2, trip_headsign |-> 1, direction_id |-> 1]}

TripOrder(t) == <<t.direction_id, t.shape_id, t.trip_headsign, t.service_id>>

\* trips.txt of a snapshot.  Every (route, shape, headsign, direction) has one
\* service, so no groupby of the run depends on the row order of the file: the
\* tables are enumerated in one row order, with one trip per combination
TripsTxts ==
    {t \in UNION {[1..n -> TripRows] : n \in 0..MaxTrips} :
        \A i \in 1..Len(t) : \A j \in (i + 1)..Len(t) :
            LexLess(TripOrder(t[i]), TripOrder(t[j]))}

\* calendar.txt: service 1 runs Mondays and Wednesdays from day 1, service 2
\* Tuesdays and Wednesdays from day 2
CalendarTxts ==
    {<<[service_id |-> 1, days |-> <<1, 0, 1, 0, 0, 0, 0>>,
        start_date |-> 1, end_date |-> LastDate],
       [service_id |-> 2, days |-> <<0, 1, 1, 0, 0, 0, 0>>,
        start_date |-> 2, end_date |-> LastDate]>>}

\* calendar_dates.txt: empty, or service 1 added on one day and removed on the
\* last day
ExceptionRows ==
    <<[date |-> LastDate - 1, service_id |-> 1, exception_type |-> 1],
      [date |-> LastDate, service_id |-> 1, exception_type |-> 2]>>

CalendarDatesTxts == {<<>>, ExceptionRows}

\* ------------------------------------------------------------------- state
FileNames == {"shapes", "routes", "route_versions", "shape_variants",
              "shape_variant_activations", "temporary_changes"}

VARIABLES
    pc,                            \* the next cell of the run
    runs,                          \* completed runs
    routes_txt, trips_txt, calendar_txt, calendar_dates_txt,
    existing,                      \* the catalog files present in data_folder
    files,                         \* their content
    files_at_start,                \* their content when the run in progress
                                   \* started; between runs, their content
    routes_df, route_versions_df, shape_variants_df, shape_variant_activations_df,
    active_dates,                  \* the dict trip_dates of cell 7dce1e7f
    latest_routes_df,
    df_noexceptions, df_exceptions, \* the two candidate sets
    merged_df,                     \* merged_df of get_extended4shape_variants
    return_df

txt_vars == <<routes_txt, trips_txt, calendar_txt, calendar_dates_txt, active_dates>>
df_vars == <<routes_df, route_versions_df, shape_variants_df,
             shape_variant_activations_df>>
act_vars == <<df_noexceptions, df_exceptions, merged_df, return_df>>
vars == <<pc, runs, txt_vars, existing, files, files_at_start, df_vars, latest_routes_df,
          act_vars>>

EmptyFiles == [f \in FileNames |-> <<>>]

\* load_df_data: the six reads succeed only if every file is present;
\* otherwise every frame is created empty and every file is written
load_df_data(present, content) ==
    IF present = FileNames THEN content ELSE EmptyFiles

Init ==
    /\ pc = "idle"
    /\ runs = 0
    /\ routes_txt = <<>> /\ trips_txt = <<>>
    /\ calendar_txt = <<>> /\ calendar_dates_txt = <<>>
    /\ active_dates = <<>>
    /\ existing = {}
    /\ files = EmptyFiles
    /\ files_at_start = EmptyFiles
    /\ routes_df = <<>> /\ route_versions_df = <<>>
    /\ shape_variants_df = <<>> /\ shape_variant_activations_df = <<>>
    /\ latest_routes_df = <<>>
    /\ df_noexceptions = <<>> /\ df_exceptions = <<>>
    /\ merged_df = <<>> /\ return_df = <<>>

\* cells dd042332 .. 08b16528: load the snapshot and the catalogs, derive the
\* latest observed configuration
LoadData ==
    /\ pc \in {"idle", "failed"} /\ runs < MaxRuns
    /\ files_at_start' = files
    /\ \E r \in RoutesTxts, t \in TripsTxts, c \in CalendarTxts, x \in CalendarDatesTxts :
          /\ routes_txt' = r /\ trips_txt' = t
          /\ calendar_txt' = c /\ calendar_dates_txt' = x
          /\ active_dates' = trip_dates(t, c)
          /\ latest_routes_df' = trips2latest_routes(t, trip_first_date(t, c), r)
    /\ LET loaded == load_df_data(existing, files)
       IN  /\ files' = loaded
           /\ routes_df' = loaded["routes"]
           /\ route_versions_df' = loaded["route_versions"]
           /\ shape_variants_df' = loaded["shape_variants"]
           /\ shape_variant_activations_df' = loaded["shape_variant_activations"]
    /\ existing' = FileNames
    /\ df_noexceptions' = <<>> /\ df_exceptions' = <<>>
    /\ merged_df' = <<>> /\ return_df' = <<>>
    /\ pc' = "loaded"
    /\ UNCHANGED runs

\* cell 02d7da5a: update_routes_df and save_routes
UpdateRoutes ==
    /\ pc = "loaded"
    /\ routes_df' = update_routes_df(routes_df, latest_routes_df)
    /\ files' = [files EXCEPT !["routes"] = routes_df']
    /\ pc' = "routes"
    /\ UNCHANGED <<runs, txt_vars, existing, files_at_start, route_versions_df, shape_variants_df,
                   shape_variant_activations_df, latest_routes_df, act_vars>>

\* cell 565297c5: update_route_versions and save_route_versions
UpdateRouteVersions ==
    /\ pc = "routes"
    /\ route_versions_df' = update_route_versions(route_versions_df, latest_routes_df)
    /\ files' = [files EXCEPT !["route_versions"] = route_versions_df']
    /\ pc' = "versions"
    /\ UNCHANGED <<runs, txt_vars, existing, files_at_start, routes_df, shape_variants_df,
                   shape_variant_activations_df, latest_routes_df, act_vars>>

\* cells 1ac678b9 and ac77889b: the regular and the exception candidates
DeriveActivations ==
    /\ pc = "versions"
    /\ df_noexceptions' = get_df_with_noexception(active_dates, trips_txt)
    /\ df_exceptions' = get_df_with_exception(calendar_dates_txt, trips_txt)
    /\ pc' = "derived"
    /\ UNCHANGED <<runs, txt_vars, existing, files, files_at_start, df_vars, latest_routes_df,
                   merged_df, return_df>>

\* cell 565faabd: get_extended4shape_variants
ExtendShapeVariants ==
    /\ pc = "derived"
    /\ merged_df' = merge_exception_dfs(df_noexceptions, df_exceptions)
    /\ return_df' = get_extended4shape_variants(route_versions_df, df_noexceptions,
                                                df_exceptions)
    /\ pc' = "extended"
    /\ UNCHANGED <<runs, txt_vars, existing, files, files_at_start, df_vars, latest_routes_df,
                   df_noexceptions, df_exceptions>>

\* cell 7d247b1c: update_shape_variants_and_activations
UpdateShapeVariants ==
    /\ pc = "extended"
    /\ shape_variants_df' = updated_shape_variants(return_df, shape_variants_df)
    /\ shape_variant_activations_df' =
           updated_activations(return_df, shape_variants_df, shape_variant_activations_df)
    /\ pc' = "updated"
    /\ UNCHANGED <<runs, txt_vars, existing, files, files_at_start, routes_df, route_versions_df,
                   latest_routes_df, act_vars>>

\* cell 661c267b: save_shape_variants_df and save_shape_variant_activations_df
SaveShapeVariants ==
    /\ pc = "updated"
    /\ files' = [files EXCEPT !["shape_variants"] = shape_variants_df,
                              !["shape_variant_activations"] = shape_variant_activations_df]
    /\ files_at_start' = files'
    /\ pc' = "idle"
    /\ runs' = runs + 1
    /\ UNCHANGED <<txt_vars, existing, df_vars, latest_routes_df, act_vars>>

Next ==
    \/ LoadData
    \/ UpdateRoutes
    \/ UpdateRouteVersions
    \/ DeriveActivations
    \/ ExtendShapeVariants
    \/ UpdateShapeVariants
    \/ SaveShapeVariants

Spec == Init /\ [][Next]_vars

\* ------------------------------------------------------------ failing runs
\* load_txt_data raises FileNotFoundError for a missing routes.txt, trips.txt,
\* shapes.txt or calendar_dates.txt: no later cell runs
LoadFails ==
    /\ pc \in {"idle", "failed"} /\ runs < MaxRuns
    /\ files_at_start' = files
    /\ pc' = "failed"
    /\ runs' = runs + 1
    /\ UNCHANGED <<txt_vars, existing, files, df_vars, latest_routes_df, act_vars>>

\* the next cell raises before it assigns or saves anything (update_route_versions
\* raises KeyError for a routes.txt without the optional route_desc column, a
\* to_csv raises OSError): the cells before it have run, no later cell runs
Abort ==
    /\ pc \in {"loaded", "routes", "versions", "derived", "extended", "updated"}
    /\ pc' = "failed"
    /\ runs' = runs + 1
    /\ UNCHANGED <<txt_vars, existing, files, files_at_start, df_vars, latest_routes_df,
                   act_vars>>

NextFail ==
    \/ Next
    \/ LoadFails
    \/ Abort

SpecFail == Init /\ [][NextFail]_vars

\* ------------------------------------------------------ catalog vocabulary
version_ids(rv) == {rv[i].version_id : i \in 1..Len(rv)}
variant_ids(sv) == {sv[i].shape_variant_id : i \in 1..Len(sv)}
pairs(rv) == {<<rv[i].route_id, rv[i].direction_id>> : i \in 1..Len(rv)}
rows_of(rv, p) == {i \in 1..Len(rv) : <<rv[i].route_id, rv[i].direction_id>> = p}
open_rows(rv, p) == {i \in rows_of(rv, p) : isna(rv[i].valid_to)}

\* the four catalogs a run of the snapshot in memory produces from the files
Reconciled ==
    LET latest == trips2latest_routes(trips_txt, trip_first_date(trips_txt, calendar_txt),
                                      routes_txt)
        routes == update_routes_df(files["routes"], latest)
        versions == update_route_versions(files["route_versions"], latest)
        joined == get_extended4shape_variants(versions,
                      get_df_with_noexception(trip_dates(trips_txt, calendar_txt), trips_txt),
                      get_df_with_exception(calendar_dates_txt, trips_txt))
    IN  [routes |-> routes,
         route_versions |-> versions,
         shape_variants |-> updated_shape_variants(joined, files["shape_variants"]),
         shape_variant_activations |->
             updated_activations(joined, files["shape_variants"],
                                 files["shape_variant_activations"])]

\* C1: after a run, running the reconciliation again on the snapshot that was
\* just processed leaves the routes, the route versions, the shape variants
\* and the activation ledger as the first run left them.
C1_RerunIdentical ==
    (pc = "idle" /\ runs > 0) =>
        /\ Reconciled.routes = files["routes"]
        /\ Reconciled.route_versions = files["route_versions"]
        /\ Reconciled.shape_variants = files["shape_variants"]
        /\ Reconciled.shape_variant_activations = files["shape_variant_activations"]

\* one step keeps every id, gives every new id a value above all ids held
\* before, starts at first and leaves no id on two rows
IdsMonotonic(old, new, rows, first) ==
    /\ old \subseteq new
    /\ \A n \in new \ old : \A o \in old : n > o
    /\ (old = {} /\ new # {}) => SetMin(new) = first
    /\ Cardinality(new) = rows

\* C2: every version_id update_route_versions assigns is greater than every
\* version_id assigned before, every shape_variant_id assigned by
\* update_shape_variants_and_activations is greater than every earlier one, the
\* first id of each kind is 100000 and no id is used twice.
C2_MonotonicIds ==
    [][/\ IdsMonotonic(version_ids(route_versions_df), version_ids(route_versions_df'),
                       Len(route_versions_df'), 100000)
       /\ IdsMonotonic(variant_ids(shape_variants_df), variant_ids(shape_variants_df'),
                       Len(shape_variants_df'), 100000)]_vars

\* a later run has closed a version and numbers new variants after old ones
C2_Witness ==
    /\ pc = "updated" /\ runs >= 1
    /\ \E i \in 1..Len(route_versions_df) : ~isna(route_versions_df[i].valid_to)
    /\ Len(files["shape_variants"]) > 0
    /\ Len(shape_variants_df) > Len(files["shape_variants"])

\* the validity intervals of two rows share a calendar date
Overlap(a, b) ==
    LET LastDay(v) == IF isna(v.valid_to) THEN SetMax({a.valid_from, b.valid_from})
                      ELSE v.valid_to[1]
    IN  /\ a.valid_from <= LastDay(a) /\ b.valid_from <= LastDay(b)
        /\ a.valid_from <= LastDay(b) /\ b.valid_from <= LastDay(a)

\* C3: no two rows of the version history of one (route_id, direction_id)
\* pair have validity intervals that share a calendar date.
C3_NoOverlap ==
    LET rv == files["route_versions"]
    IN  \A p \in pairs(rv) : \A i, j \in rows_of(rv, p) :
            i # j => ~Overlap(rv[i], rv[j])

\* C4: every (route_id, direction_id) pair has at most one row of the version
\* history with valid_to = null.
C4_AtMostOneOpen ==
    /\ \A p \in pairs(files["route_versions"]) :
           Cardinality(open_rows(files["route_versions"], p)) <= 1
    /\ \A p \in pairs(route_versions_df) :
           Cardinality(open_rows(route_versions_df, p)) <= 1

\* a pair whose configuration changed: a closed row and an open row
C4_Witness ==
    /\ pc = "idle"
    /\ \E p \in pairs(files["route_versions"]) :
           /\ Cardinality(open_rows(files["route_versions"], p)) = 1
           /\ Cardinality(rows_of(files["route_versions"], p)) >= 2

\* C5: after every run each (route_id, direction_id) pair with a row in the
\* version history has exactly one row with valid_to = null.
C5_ExactlyOneOpen ==
    pc = "idle" =>
        \A p \in pairs(files["route_versions"]) :
            Cardinality(open_rows(files["route_versions"], p)) = 1

\* C6: the close-out of update_route_versions sets valid_to only on open
\* versions of a route and direction that have a new configuration in the run.
C6_CloseOutKeepsOtherDirection ==
    [][pc = "routes" =>
          \A i \in 1..Len(route_versions_df) :
              (isna(route_versions_df[i].valid_to) /\ ~isna(route_versions_df'[i].valid_to))
              => \E j \in (Len(route_versions_df) + 1)..Len(route_versions_df') :
                     /\ route_versions_df'[j].route_id = route_versions_df[i].route_id
                     /\ route_versions_df'[j].direction_id = route_versions_df[i].direction_id
      ]_vars

\* C7: when the run observes a configuration that differs from the open
\* version of its pair, the run closes that version at the valid_from of the
\* new version of the same pair minus one day and appends exactly one open row
\* with a fresh version_id for the pair.
C7_ChangeClosesAndOpens ==
    [][pc = "routes" =>
          \A i \in 1..Len(route_versions_df) : \A k \in 1..Len(latest_routes_df) :
              LET old == route_versions_df[i]
                  cand == latest_routes_df[k]
                  added == {j \in (Len(route_versions_df) + 1)..Len(route_versions_df') :
                               /\ route_versions_df'[j].route_id = old.route_id
                               /\ route_versions_df'[j].direction_id = old.direction_id}
              IN  (/\ isna(old.valid_to)
                   /\ cand.route_id = old.route_id
                   /\ cand.direction_id = old.direction_id
                   /\ <<cand.main_shape_id, cand.trip_headsign>>
                          # <<old.main_shape_id, old.trip_headsign>>)
                  => /\ Cardinality(added) = 1
                     /\ \A j \in added :
                            /\ isna(route_versions_df'[j].valid_to)
                            /\ route_versions_df'[j].version_id
                                   \notin version_ids(route_versions_df)
                            /\ route_versions_df'[i].valid_to
                                   = <<route_versions_df'[j].valid_from - 1>>
      ]_vars

\* --------------------------------------- merge_exception_dfs on its own
\* the dedup keys of the candidate frames
MergeKeys ==
    [date : {LastDate - 1, LastDate}, route_id : RouteIds, shape_id : ShapeIds,
     trip_headsign : {1}, direction_id : {0}]

Candidate(k, x) ==
    [date |-> k.date, route_id |-> k.route_id, shape_id |-> k.shape_id,
     trip_headsign |-> k.trip_headsign, direction_id |-> k.direction_id,
     exception_type |-> x]

\* the keys of K in the group order both derivers emit
GroupOrder(K) ==
    LET t == SortedTuples({<<k.route_id, k.shape_id, k.trip_headsign, k.direction_id, k.date>>
                              : k \in K})
    IN  [i \in 1..Len(t) |-> [date |-> t[i][5], route_id |-> t[i][1], shape_id |-> t[i][2],
                              trip_headsign |-> t[i][3], direction_id |-> t[i][4]]]

\* frames get_df_with_noexception can return: one regular row per key
NoExceptionFrames ==
    {[i \in 1..Cardinality(K) |-> Candidate(GroupOrder(K)[i], NaN)] : K \in SUBSET MergeKeys}

\* frames get_df_with_exception can return: one coded row per key
ExceptionFrames ==
    UNION {{[i \in 1..Cardinality(K) |-> Candidate(GroupOrder(K)[i], <<str(c[GroupOrder(K)[i]])>>)]
               : c \in [K -> ExceptionCodes]} : K \in SUBSET MergeKeys}

InitMerge ==
    /\ pc = "merge"
    /\ runs = 0
    /\ routes_txt = <<>> /\ trips_txt = <<>>
    /\ calendar_txt = <<>> /\ calendar_dates_txt = <<>>
    /\ active_dates = <<>>
    /\ existing = {}
    /\ files = EmptyFiles
    /\ files_at_start = EmptyFiles
    /\ routes_df = <<>> /\ route_versions_df = <<>>
    /\ shape_variants_df = <<>> /\ shape_variant_activations_df = <<>>
    /\ latest_routes_df = <<>>
    /\ df_noexceptions \in NoExceptionFrames
    /\ df_exceptions \in ExceptionFrames
    /\ merged_df = <<>> /\ return_df = <<>>

\* merged_df = merge_exception_dfs(df_noexceptions, df_exceptions)
MergeFrames ==
    /\ pc = "merge"
    /\ merged_df' = merge_exception_dfs(df_noexceptions, df_exceptions)
    /\ pc' = "merged"
    /\ UNCHANGED <<runs, txt_vars, existing, files, files_at_start, df_vars, latest_routes_df,
                   df_noexceptions, df_exceptions, return_df>>

NextMerge == MergeFrames

SpecMerge == InitMerge /\ [][NextMerge]_vars

both_keys(df1, df2) ==
    {cols_except_exception(df1[i]) : i \in 1..Len(df1)}
        \cap {cols_except_exception(df2[i]) : i \in 1..Len(df2)}

\* C8: for every dedup key that occurs in the regular and in the exception
\* candidates, merge_exception_dfs returns the exception-coded row of that key
\* and no row of that key with an absent exception_type.
C8_ExceptionPrecedence ==
    pc = "merged" =>
        \A k \in both_keys(df_noexceptions, df_exceptions) :
            /\ \E i \in 1..Len(merged_df) : \E j \in 1..Len(df_exceptions) :
                   /\ cols_except_exception(df_exceptions[j]) = k
                   /\ merged_df[i] = df_exceptions[j]
            /\ \A i \in 1..Len(merged_df) :
                   cols_except_exception(merged_df[i]) = k
                       => ~isna(merged_df[i].exception_type)

\* a merge of frames that share a key
C8_Witness ==
    /\ pc = "merged"
    /\ both_keys(df_noexceptions, df_exceptions) # {}

\* C9: no two rows of the activation ledger have the same
\* (date, shape_variant_id, exception_type), an absent exception_type being
\* equal to itself.
C9_LedgerUnique ==
    /\ \A i, j \in 1..Len(files["shape_variant_activations"]) :
           i # j => files["shape_variant_activations"][i]
                        # files["shape_variant_activations"][j]
    /\ \A i, j \in 1..Len(shape_variant_activations_df) :
           i # j => shape_variant_activations_df[i] # shape_variant_activations_df[j]

\* a later run whose candidates are partly in the ledger and partly new
C9_Witness ==
    /\ pc = "updated" /\ runs >= 1
    /\ \E a \in Range(new_activations(return_df, shape_variants_df)) :
           a \in Range(files["shape_variant_activations"])
    /\ Len(shape_variant_activations_df) > Len(files["shape_variant_activations"])

\* the version row that owns the variant v
owner(v) ==
    CHOOSE r \in Range(files["route_versions"]) : r.version_id = v.version_id

\* the candidates of df that the last run mapped to the variant v on date d
derived(df, v, d) ==
    {i \in 1..Len(df) :
        /\ isna(owner(v).valid_to)
        /\ df[i].date = d
        /\ df[i].route_id = owner(v).route_id
        /\ df[i].direction_id = owner(v).direction_id
        /\ df[i].shape_id = v.shape_id
        /\ df[i].trip_headsign = v.trip_headsign}

\* C10: for every date and shape variant for which a regular activation and
\* an exception activation have been derived (by the last run, or by an earlier
\* run as a ledger row records), the ledger has exactly one row for that date
\* and variant, and the row carries the exception code.
C10_OneExceptionRow ==
    (pc = "idle" /\ runs > 0) =>
        LET ledger == files["shape_variant_activations"]
        IN  \A v \in Range(files["shape_variants"]) : \A d \in 1..LastDate :
                LET rows == {i \in 1..Len(ledger) :
                                ledger[i].date = d
                                /\ ledger[i].shape_variant_id = v.shape_variant_id}
                    regular == \/ \E i \in rows : isna(ledger[i].exception_type)
                               \/ derived(df_noexceptions, v, d) # {}
                    exception == \/ \E i \in rows : ~isna(ledger[i].exception_type)
                                 \/ derived(df_exceptions, v, d) # {}
                IN  (regular /\ exception)
                        => /\ Cardinality(rows) = 1
                           /\ \A i \in rows : ~isna(ledger[i].exception_type)

\* the rows of the variant catalog sv have pairwise different keys
KeysUnique(sv) ==
    \A i, j \in 1..Len(sv) : i # j => variant_key(sv[i]) # variant_key(sv[j])

\* C11: no two rows of the shape variant catalog have the same
\* (version_id, shape_id, trip_headsign, is_main), every step keeps each row of
\* the catalog with the shape_variant_id it has, and a run that observes a
\* tuple the catalog holds writes its ledger rows under that id.
C11_VariantKeyStable ==
    [][/\ KeysUnique(shape_variants_df') /\ KeysUnique(files'["shape_variants"])
       /\ \A i \in 1..Len(shape_variants_df) :
              i <= Len(shape_variants_df') /\ shape_variants_df'[i] = shape_variants_df[i]
       /\ \A i \in 1..Len(files["shape_variants"]) :
              /\ i <= Len(files'["shape_variants"])
              /\ files'["shape_variants"][i] = files["shape_variants"][i]
       /\ pc = "extended" =>
              \A r \in Range(return_df) : \A v \in Range(shape_variants_df) :
                  variant_key(v) = variant_key(r)
                      => \E a \in Range(shape_variant_activations_df') :
                             /\ a.date = r.date
                             /\ a.shape_variant_id = v.shape_variant_id
                             /\ a.exception_type = float64(r.exception_type)
      ]_vars

\* a later run has observed a tuple of the catalog again and a new tuple
C11_Witness ==
    /\ pc = "updated" /\ runs >= 1
    /\ \E r \in Range(return_df) : \E v \in Range(files["shape_variants"]) :
           variant_key(v) = variant_key(r)
    /\ \E r \in Range(return_df) :
           \A v \in Range(files["shape_variants"]) : variant_key(v) # variant_key(r)

\* C12: a second call of update_shape_variants_and_activations with the same
\* joined rows and with the catalog and the ledger the first call returned
\* returns that catalog and that ledger with no row added, and reports
\* "No new variants added" and "No new activations added".
C12_SecondCallAddsNothing ==
    pc = "updated" =>
        /\ updated_shape_variants(return_df, shape_variants_df) = shape_variants_df
        /\ updated_activations(return_df, shape_variants_df, shape_variant_activations_df)
               = shape_variant_activations_df
        /\ summary(return_df, shape_variants_df, shape_variant_activations_df)
               = <<"No new variants added", "No new activations added">>

\* the first call added variants and activations, one with an exception code
C12_Witness ==
    /\ pc = "updated"
    /\ Len(shape_variants_df) > Len(files["shape_variants"])
    /\ Len(shape_variant_activations_df) > Len(files["shape_variant_activations"])
    /\ \E a \in Range(shape_variant_activations_df) :
           ~isna(a.exception_type) /\ a \notin Range(files["shape_variant_activations"])

\* the persisted catalogs
Catalogs == {"routes", "route_versions", "shape_variants", "shape_variant_activations"}

\* C13: when a run has failed, at the load or in a later cell, each of the
\* four persisted catalogs has the content it had when that run started.
C13_FailedRunPersistsNothing ==
    pc = "failed" => \A f \in Catalogs : files[f] = files_at_start[f]

\* ------------------------------------------ update_routes_df on its own
CatalogRouteIds == {1, 2}
RouteNames == {1, 2}

\* the frames trips2latest_routes returns for a routes.txt over the routes R
\* with the names n and trips in the directions d: one row per route and
\* direction, in the order of routes.txt
LatestFrames ==
    UNION {{LET t == SortedTuples(UNION {{<<r, dir>> : dir \in d[r]} : r \in R})
            IN  [i \in 1..Len(t) |->
                    [route_id |-> t[i][1], route_short_name |-> n[t[i][1]], route_desc |-> 1,
                     main_shape_id |-> 1, trip_headsign |-> 1, direction_id |-> t[i][2],
                     valid_from |-> 1]]
              : n \in [R -> RouteNames], d \in [R -> {{0}, {0, 1}}]}
           : R \in SUBSET CatalogRouteIds}

\* the routes catalogs a first run leaves
RoutesCatalogs == {update_routes_df(<<>>, l) : l \in LatestFrames}

InitRoutes ==
    /\ pc = "update_routes_df"
    /\ runs = 0
    /\ routes_txt = <<>> /\ trips_txt = <<>>
    /\ calendar_txt = <<>> /\ calendar_dates_txt = <<>>
    /\ active_dates = <<>>
    /\ existing = {}
    /\ files = EmptyFiles
    /\ files_at_start = EmptyFiles
    /\ routes_df \in RoutesCatalogs
    /\ route_versions_df = <<>>
    /\ shape_variants_df = <<>> /\ shape_variant_activations_df = <<>>
    /\ latest_routes_df \in LatestFrames
    /\ df_noexceptions = <<>> /\ df_exceptions = <<>>
    /\ merged_df = <<>> /\ return_df = <<>>

\* updated_routes_df = update_routes_df(routes_df, latest_routes_df)
UpdateRoutesDf ==
    /\ pc = "update_routes_df"
    /\ routes_df' = update_routes_df(routes_df, latest_routes_df)
    /\ pc' = "updated_routes_df"
    /\ UNCHANGED <<runs, txt_vars, existing, files, files_at_start, route_versions_df,
                   shape_variants_df, shape_variant_activations_df, latest_routes_df,
                   act_vars>>

NextRoutes == UpdateRoutesDf

SpecRoutes == InitRoutes /\ [][NextRoutes]_vars

\* C14: update_routes_df returns the rows of the routes catalog as they are,
\* in place, also the row of a route_id for which the snapshot has other
\* attributes, followed only by rows for route_ids the catalog did not hold.
C14_RoutesAppendOnly ==
    [][pc = "update_routes_df" =>
          /\ Len(routes_df') >= Len(routes_df)
          /\ \A i \in 1..Len(routes_df) : routes_df'[i] = routes_df[i]
          /\ \A j \in (Len(routes_df) + 1)..Len(routes_df') :
                 /\ \A i \in 1..Len(routes_df) : routes_df[i].route_id # routes_df'[j].route_id
                 /\ \E l \in Range(latest_routes_df) : l.route_id = routes_df'[j].route_id
      ]_vars

\* a call with other attributes for a known route_id, next to a route_id
\* whose attributes agree
C14_Witness ==
    /\ pc = "updated_routes_df"
    /\ \E r \in Range(routes_df) : \E l \in Range(latest_routes_df) :
           r.route_id = l.route_id /\ r.route_short_name # l.route_short_name
    /\ \E r \in Range(routes_df) : \E l \in Range(latest_routes_df) :
           r.route_id = l.route_id /\ r.route_short_name = l.route_short_name

\* the number of rows of the routes catalog with the route_id r
route_rows(routes, r) == Cardinality({i \in 1..Len(routes) : routes[i].route_id = r})

\* C15: after every run the routes catalog has exactly one row for each
\* route_id that a run has observed with trips, also when the trips of the
\* route run in two directions.
C15_OneRowPerRoute ==
    (pc = "idle" /\ runs > 0) =>
        /\ \A l \in Range(latest_routes_df) : route_rows(files["routes"], l.route_id) = 1
        /\ \A r \in Range(files["routes"]) : route_rows(files["routes"], r.route_id) = 1

\* C16: whenever the catalog update_routes_df returns holds a route_id more
\* than once, the duplicate warning of the call lists that route_id.
C16_DuplicatesReported ==
    pc = "routes" =>
        \A r \in Range(routes_df) :
            route_rows(routes_df, r.route_id) > 1 => r.route_id \in duplicates(routes_df)

\* --------------------------------------------- get_active_dates on its own
\* calendar.txt without a row, or with one row for service 1: any weekday
\* flags, any start and end date up to MaxDate
DateCalendars ==
    {<<>>} \cup {<<[service_id |-> 1, days |-> f, start_date |-> a, end_date |-> b]>> :
                     f \in [1..7 -> {0, 1}], a \in 1..MaxDate, b \in 1..MaxDate}

\* trips of service 1 and of service 2, which has no calendar row
DateTrips ==
    <<[service_id |-> 1, route_id |-> 1, shape_id |-> 1, trip_headsign |-> 1, direction_id |-> 0],
      [service_id |-> 2, route_id |-> 1, shape_id |-> 1, trip_headsign |-> 1, direction_id |-> 1]>>

InitDates ==
    /\ pc = "get_active_dates"
    /\ runs = 0
    /\ routes_txt = <<>> /\ trips_txt = DateTrips
    /\ calendar_txt \in DateCalendars /\ calendar_dates_txt = <<>>
    /\ active_dates = <<>>
    /\ existing = {}
    /\ files = EmptyFiles
    /\ files_at_start = EmptyFiles
    /\ routes_df = <<>> /\ route_versions_df = <<>>
    /\ shape_variants_df = <<>> /\ shape_variant_activations_df = <<>>
    /\ latest_routes_df = <<>>
    /\ df_noexceptions = <<>> /\ df_exceptions = <<>>
    /\ merged_df = <<>> /\ return_df = <<>>

\* cell 7dce1e7f: trip_dates = {service: get_active_dates(calendar_df, service)}
GetActiveDates ==
    /\ pc = "get_active_dates"
    /\ active_dates' = trip_dates(trips_txt, calendar_txt)
    /\ pc' = "active_dates"
    /\ UNCHANGED <<runs, routes_txt, trips_txt, calendar_txt, calendar_dates_txt, existing,
                   files, files_at_start, df_vars, latest_routes_df, act_vars>>

NextDates == GetActiveDates

SpecDates == InitDates /\ [][NextDates]_vars

\* C17: for a service with a calendar row that has a weekday flag set,
\* get_active_dates returns exactly the dates from start_date to end_date whose
\* weekday flag is set, in strictly increasing order; for a service without a
\* calendar row or without a flag set it returns the empty list.
C17_ActiveDates ==
    pc = "active_dates" =>
        \A s \in DOMAIN active_dates :
            LET rows == SelectSeq(calendar_txt, LAMBDA r : r.service_id = s)
                dates == active_dates[s]
            IN  IF rows = <<>> \/ (\A k \in 1..7 : rows[1].days[k] # 1)
                THEN dates = <<>>
                ELSE /\ Range(dates) = {d \in rows[1].start_date..rows[1].end_date :
                                            rows[1].days[Weekday(d) + 1] = 1}
                     /\ \A i \in 1..(Len(dates) - 1) : dates[i] < dates[i + 1]

\* a service active on one weekday over more than a week, next to a service
\* without a calendar row
C17_Witness ==
    /\ pc = "active_dates"
    /\ \E s \in DOMAIN active_dates :
           /\ Len(active_dates[s]) = 2
           /\ active_dates[s][2] = active_dates[s][1] + 7
    /\ \E s \in DOMAIN active_dates :
           SelectSeq(calendar_txt, LAMBDA r : r.service_id = s) = <<>>

\* ------------------- trips2latest_routes and get_df_with_noexception on their own
\* trips.txt rows of one route: either service on either shape in either
\* direction
DeriverTripRows ==
    [service_id : ServiceIds, route_id : RouteIds, shape_id : ShapeIds,
     trip_headsign : {1}, direction_id : DirectionIds]

\* trips.txt in any row order
DeriverTrips == UNION {[1..n -> DeriverTripRows] : n \in 0..MaxTrips}

InitTrips ==
    /\ pc = "trips2latest_routes"
    /\ runs = 0
    /\ routes_txt \in RoutesTxts /\ trips_txt \in DeriverTrips
    /\ calendar_txt \in CalendarTxts /\ calendar_dates_txt = <<>>
    /\ active_dates = trip_dates(trips_txt, calendar_txt)
    /\ existing = {}
    /\ files = EmptyFiles
    /\ files_at_start = EmptyFiles
    /\ routes_df = <<>> /\ route_versions_df = <<>>
    /\ shape_variants_df = <<>> /\ shape_variant_activations_df = <<>>
    /\ latest_routes_df = <<>>
    /\ df_noexceptions = <<>> /\ df_exceptions = <<>>
    /\ merged_df = <<>> /\ return_df = <<>>

\* cell 08b16528: latest_routes_df = trips2latest_routes(...)
Trips2LatestRoutes ==
    /\ pc = "trips2latest_routes"
    /\ latest_routes_df' =
           trips2latest_routes(trips_txt, trip_first_date(trips_txt, calendar_txt), routes_txt)
    /\ pc' = "get_df_with_noexception"
    /\ UNCHANGED <<runs, txt_vars, existing, files, files_at_start, df_vars, act_vars>>

\* cell 1ac678b9: df_noexceptions = get_df_with_noexception(trip_dates, trips_df)
GetDfWithNoexception ==
    /\ pc = "get_df_with_noexception"
    /\ df_noexceptions' = get_df_with_noexception(active_dates, trips_txt)
    /\ pc' = "df_noexceptions"
    /\ UNCHANGED <<runs, txt_vars, existing, files, files_at_start, df_vars,
                   latest_routes_df, df_exceptions, merged_df, return_df>>

NextTrips ==
    \/ Trips2LatestRoutes
    \/ GetDfWithNoexception

SpecTrips == InitTrips /\ [][NextTrips]_vars

\* C18: for every trip whose service has an active date and for every active
\* date of that service, get_df_with_noexception returns a row with that date,
\* the trip's route_id, shape_id, trip_headsign and direction_id and an absent
\* exception_type; a combination served by two services has the dates of both.
C18_RegularCandidatesComplete ==
    pc = "df_noexceptions" =>
        \A t \in Range(trips_txt) : \A d \in Range(active_dates[t.service_id]) :
            \E r \in Range(df_noexceptions) :
                /\ r.date = d
                /\ r.route_id = t.route_id /\ r.shape_id = t.shape_id
                /\ r.trip_headsign = t.trip_headsign /\ r.direction_id = t.direction_id
                /\ isna(r.exception_type)

\* the trips of the (shape_id, trip_headsign) combination c on the route and
\* direction of the row l whose service has a first date
trips_of(l, c) ==
    {i \in 1..Len(trips_txt) :
        /\ trips_txt[i].route_id = l.route_id
        /\ trips_txt[i].direction_id = l.direction_id
        /\ <<trips_txt[i].shape_id, trips_txt[i].trip_headsign>> = c
        /\ active_dates[trips_txt[i].service_id] # <<>>}

\* the first date on which a trip of the combination runs
first_observed(l, c) ==
    SetMin({active_dates[trips_txt[i].service_id][1] : i \in trips_of(l, c)})

\* C19: the configuration trips2latest_routes returns for a route and
\* direction is a (shape_id, trip_headsign) combination with the highest number
\* of trips on that route and direction and, among the combinations with that
\* number, one with the earliest first-observed date.
C19_LatestConfiguration ==
    pc \in {"get_df_with_noexception", "df_noexceptions"} =>
        \A l \in Range(latest_routes_df) :
            LET chosen == <<l.main_shape_id, l.trip_headsign>>
            IN  \A c \in ShapeIds \X Headsigns :
                    /\ Cardinality(trips_of(l, c)) <= Cardinality(trips_of(l, chosen))
                    /\ (/\ trips_of(l, c) # {}
                        /\ Cardinality(trips_of(l, c)) = Cardinality(trips_of(l, chosen)))
                       => first_observed(l, chosen) <= first_observed(l, c)

\* the open version v has the configuration of the candidate l
same_configuration(v, l) ==
    /\ isna(v.valid_to)
    /\ v.route_id = l.route_id /\ v.direction_id = l.direction_id
    /\ v.main_shape_id = l.main_shape_id /\ v.trip_headsign = l.trip_headsign

\* C20: update_route_versions appends no row for a candidate when an open
\* version has its route_id, direction_id, main shape id and trip_headsign, and
\* exactly one open row for it otherwise; when every candidate has such an open
\* version the history is returned as it was.
C20_NewVersionWhenChanged ==
    [][pc = "routes" =>
          LET added(l) == {j \in (Len(route_versions_df) + 1)..Len(route_versions_df') :
                              /\ route_versions_df'[j].route_id = l.route_id
                              /\ route_versions_df'[j].direction_id = l.direction_id}
              unchanged(l) == \E v \in Range(route_versions_df) : same_configuration(v, l)
          IN  /\ \A l \in Range(latest_routes_df) :
                     IF unchanged(l) THEN added(l) = {}
                     ELSE /\ Cardinality(added(l)) = 1
                          /\ \A j \in added(l) : same_configuration(route_versions_df'[j], l)
              /\ Len(route_versions_df') - Len(route_versions_df)
                     = Cardinality({l \in Range(latest_routes_df) : ~unchanged(l)})
              /\ (\A l \in Range(latest_routes_df) : unchanged(l))
                     => route_versions_df' = route_versions_df
      ]_vars

\* a run over a history with one unchanged candidate and one changed candidate
C20_Witness ==
    /\ pc = "versions"
    /\ \E l \in Range(latest_routes_df) :
           \E v \in Range(files_at_start["route_versions"]) : same_configuration(v, l)
    /\ \E l \in Range(latest_routes_df) :
           /\ \E v \in Range(files_at_start["route_versions"]) :
                  /\ isna(v.valid_to)
                  /\ v.route_id = l.route_id /\ v.direction_id = l.direction_id
           /\ \A v \in Range(files_at_start["route_versions"]) : ~same_configuration(v, l)

\* the dedup keys of the rows of the frame df
keys_of(df) == {cols_except_exception(df[i]) : i \in 1..Len(df)}

\* C21: merge_exception_dfs returns exactly one row for every dedup key
\* (date, route_id, shape_id, trip_headsign, direction_id) of the regular or
\* the exception candidates and no row of another key, and the number of
\* removed duplicates it reports is the number of keys that are in both sets.
C21_OneRowPerKey ==
    pc = "merged" =>
        /\ keys_of(merged_df) = keys_of(df_noexceptions) \cup keys_of(df_exceptions)
        /\ Len(merged_df) = Cardinality(keys_of(merged_df))
        /\ removed(df_noexceptions, df_exceptions)
               = Cardinality(both_keys(df_noexceptions, df_exceptions))

\* a merge with a key in both frames, a key of the regular frame alone and a
\* key of the exception frame alone
C21_Witness ==
    /\ pc = "merged"
    /\ both_keys(df_noexceptions, df_exceptions) # {}
    /\ keys_of(df_noexceptions) \ keys_of(df_exceptions) # {}
    /\ keys_of(df_exceptions) \ keys_of(df_noexceptions) # {}

\* ------------------------------------- update_route_versions on its own
\* the frames trips2latest_routes returns for the snapshots
VersionFrames ==
    {trips2latest_routes(t, trip_first_date(t, c), r) :
        t \in TripsTxts, c \in CalendarTxts, r \in RoutesTxts}

\* the version histories two runs leave
VersionHistories ==
    {update_route_versions(update_route_versions(<<>>, a), b) :
        a \in VersionFrames, b \in VersionFrames}

InitVersions ==
    /\ pc = "update_route_versions"
    /\ runs = 0
    /\ routes_txt = <<>> /\ trips_txt = <<>>
    /\ calendar_txt = <<>> /\ calendar_dates_txt = <<>>
    /\ active_dates = <<>>
    /\ existing = FileNames
    /\ route_versions_df \in VersionHistories
    /\ files = [EmptyFiles EXCEPT !["route_versions"] = route_versions_df]
    /\ files_at_start = files
    /\ routes_df = <<>>
    /\ shape_variants_df = <<>> /\ shape_variant_activations_df = <<>>
    /\ latest_routes_df \in VersionFrames
    /\ df_noexceptions = <<>> /\ df_exceptions = <<>>
    /\ merged_df = <<>> /\ return_df = <<>>

\* cell 565297c5 on the loaded history
UpdateVersionHistory ==
    /\ pc = "update_route_versions"
    /\ route_versions_df' = update_route_versions(route_versions_df, latest_routes_df)
    /\ files' = [files EXCEPT !["route_versions"] = route_versions_df']
    /\ pc' = "extended_route_versions"
    /\ UNCHANGED <<runs, txt_vars, existing, files_at_start, routes_df, shape_variants_df,
                   shape_variant_activations_df, latest_routes_df, act_vars>>

NextVersions == UpdateVersionHistory

SpecVersions == InitVersions /\ [][NextVersions]_vars

\* the row new is the row old, but for a valid_to set where old has none
SameButClosed(old, new) ==
    /\ [new EXCEPT !.valid_to = NaN] = [old EXCEPT !.valid_to = NaN]
    /\ ~isna(old.valid_to) => new.valid_to = old.valid_to

\* C22: update_route_versions keeps every row of the version history in
\* place, changes no field of it but valid_to, and sets valid_to only where it
\* was null: a closed version keeps its valid_to and is never reopened.
C22_HistoryKept ==
    [][pc = "update_route_versions" =>
          /\ Len(route_versions_df') >= Len(route_versions_df)
          /\ \A i \in 1..Len(route_versions_df) :
                 SameButClosed(route_versions_df[i], route_versions_df'[i])
          /\ \A i \in 1..Len(files["route_versions"]) :
                 SameButClosed(files["route_versions"][i], files'["route_versions"][i])
      ]_vars

\* a call on a history with a closed version that closes an open version
\* and appends a version
C22_Witness ==
    /\ pc = "extended_route_versions"
    /\ \E i \in 1..Len(files_at_start["route_versions"]) :
           ~isna(files_at_start["route_versions"][i].valid_to)
    /\ \E i \in 1..Len(files_at_start["route_versions"]) :
           /\ isna(files_at_start["route_versions"][i].valid_to)
           /\ ~isna(route_versions_df[i].valid_to)
    /\ Len(route_versions_df) > Len(files_at_start["route_versions"])

\* C23: every row the shape variant catalog and the activation ledger hold
\* before a call of update_shape_variants_and_activations is, with the same
\* field values, in the catalog and in the ledger the call returns.
C23_VariantsAndLedgerKept ==
    [][pc = "extended" =>
          /\ Len(shape_variants_df') >= Len(shape_variants_df)
          /\ \A v \in Range(shape_variants_df) : v \in Range(shape_variants_df')
          /\ Len(shape_variant_activations_df') >= Len(shape_variant_activations_df)
          /\ \A a \in Range(shape_variant_activations_df) :
                 a \in Range(shape_variant_activations_df')
      ]_vars

\* a call on a catalog and a ledger with rows that adds a ledger row sorted
\* before a row the ledger held
C23_Witness ==
    /\ pc = "updated"
    /\ files["shape_variants"] # <<>>
    /\ \E i, j \in 1..Len(shape_variant_activations_df) :
           /\ i < j
           /\ shape_variant_activations_df[i] \notin Range(files["shape_variant_activations"])
           /\ shape_variant_activations_df[j] \in Range(files["shape_variant_activations"])

\* every ledger row of ledger has the id of a variant of sv, and every
\* variant of sv the version_id of a version of rv
References(ledger, sv, rv) ==
    /\ \A a \in Range(ledger) :
           a.shape_variant_id # NA_ID /\ a.shape_variant_id \in variant_ids(sv)
    /\ \A v \in Range(sv) : v.version_id \in version_ids(rv)

\* C24: every ledger row has a shape_variant_id, one of the shape variant
\* catalog; every shape variant has the version_id of a row of the version
\* history; and every variant a run adds belongs to a version that is open
\* after the version reconciliation of that run.
C24_ReferencesResolve ==
    /\ References(files["shape_variant_activations"], files["shape_variants"],
                  files["route_versions"])
    /\ References(shape_variant_activations_df, shape_variants_df, route_versions_df)
    /\ pc = "updated" =>
           \A i \in (Len(files["shape_variants"]) + 1)..Len(shape_variants_df) :
               \E r \in Range(route_versions_df) :
                   r.version_id = shape_variants_df[i].version_id /\ isna(r.valid_to)

\* a run adds a variant while the catalog holds a variant of a closed version
\* with ledger rows
C24_Witness ==
    /\ pc = "updated"
    /\ Len(shape_variants_df) > Len(files["shape_variants"])
    /\ \E v \in Range(files["shape_variants"]) :
           /\ \E r \in Range(route_versions_df) :
                  r.version_id = v.version_id /\ ~isna(r.valid_to)
           /\ \E a \in Range(shape_variant_activations_df) :
                  a.shape_variant_id = v.shape_variant_id

\* C25: the snapshots of the runs come in non-decreasing date order (every run
\* reads a calendar.txt with the same service dates), and every closed row of
\* the saved route version history has valid_from <= valid_to after every run.
C25_ClosedRowsOrdered ==
    pc = "idle" =>
        \A r \in Range(files["route_versions"]) :
            ~isna(r.valid_to) => r.valid_from <= r.valid_to[1]

\* --------------------------------------------- load_df_data on its own
\* the data folders load_df_data finds: any of the six files present, routes.csv
\* and route_versions.csv with the rows earlier runs left
DataFolders ==
    {[present |-> P, content |-> [EmptyFiles EXCEPT !["routes"] = rc,
                                                    !["route_versions"] = rv]] :
        P \in SUBSET FileNames,
        rc \in RoutesCatalogs \cup {<<>>},
        rv \in VersionHistories \cup {<<>>}}

InitLoad ==
    /\ pc = "load_df_data"
    /\ runs = 0
    /\ routes_txt = <<>> /\ trips_txt = <<>>
    /\ calendar_txt = <<>> /\ calendar_dates_txt = <<>>
    /\ active_dates = <<>>
    /\ \E d \in DataFolders :
          /\ \A f \in FileNames \ d.present : d.content[f] = <<>>
          /\ existing = d.present
          /\ files = d.content
    /\ files_at_start = files
    /\ routes_df = <<>> /\ route_versions_df = <<>>
    /\ shape_variants_df = <<>> /\ shape_variant_activations_df = <<>>
    /\ latest_routes_df = <<>>
    /\ df_noexceptions = <<>> /\ df_exceptions = <<>>
    /\ merged_df = <<>> /\ return_df = <<>>

\* cell 08b16528: load_df_data on the data folder
LoadDfData ==
    /\ pc = "load_df_data"
    /\ LET loaded == load_df_data(existing, files)
       IN  /\ files' = loaded
           /\ routes_df' = loaded["routes"]
           /\ route_versions_df' = loaded["route_versions"]
           /\ shape_variants_df' = loaded["shape_variants"]
           /\ shape_variant_activations_df' = loaded["shape_variant_activations"]
    /\ existing' = FileNames
    /\ pc' = "loaded"
    /\ UNCHANGED <<runs, txt_vars, files_at_start, latest_routes_df, act_vars>>

NextLoad == LoadDfData

SpecLoad == InitLoad /\ [][NextLoad]_vars

\* C26: load_df_data writes the empty files only when none of the six files
\* exists; when a file exists, also next to a missing one, the load leaves
\* its content as it was and returns the rows of it.
C26_LoadKeepsPersistedFiles ==
    [][(pc = "load_df_data" /\ existing # {}) =>
          /\ \A f \in existing : files'[f] = files[f]
          /\ "routes" \in existing => routes_df' = files["routes"]
          /\ "route_versions" \in existing => route_versions_df' = files["route_versions"]
          /\ "shape_variants" \in existing => shape_variants_df' = files["shape_variants"]
          /\ "shape_variant_activations" \in existing =>
                 shape_variant_activations_df' = files["shape_variant_activations"]
      ]_vars

====
